---- MODULE Spec2Model ----
(***************************************************************************)
(* Transport socket of axon (lib/sockets/sock.js) with its publisher and   *)
(* subscriber specialisations.  One socket object is modelled together     *)
(* with the raw streams it dials or accepts.  Every event-loop callback    *)
(* (connect event, error event, close event, backoff timer, ...) is one    *)
(* action; application calls (connect, bind, close, send, subscribe, ...)  *)
(* are actions too.                                                        *)
(***************************************************************************)
EXTENDS Integers, Sequences, FiniteSets, TLC

(* Number of stream slots.  A slot is one connect() call of the            *)
(* application with the chain of streams its reconnections create, or one  *)
(* accepted stream of a listener.                                          *)
MaxStreams == 2

Streams == 1..MaxStreams

(* sock.js:21-32 *)
ignore ==
  {"ECONNREFUSED", "ECONNRESET", "ETIMEDOUT", "EHOSTUNREACH", "ENETUNREACH",
   "ENETDOWN", "EPIPE", "ENOENT", "Z_BUF_ERROR", "Z_DATA_ERROR"}

(* err.code values injected by the environment; "undefined" is an error    *)
(* object that carries no code.                                            *)
ErrCodes == {"ECONNREFUSED", "ECONNRESET", "Z_DATA_ERROR", "EACCES", "undefined"}

(* The codes of the errors of a raw stream, and of the errors of its       *)
(* gunzip and parser stages.                                               *)
StreamErrCodes == ErrCodes \ {"Z_DATA_ERROR"}

StageErrCodes == {"Z_DATA_ERROR", "undefined"}

(* One ignorable and one fatal code, for the runs that do not need more.   *)
RoleErrCodes == {"ECONNRESET", "EACCES"}

(* The setting 'tls': not set, or an options object whose requestCert and *)
(* rejectUnauthorized are "undefined", "true" or "false".                  *)
NoTls == [set |-> FALSE, requestCert |-> "undefined", rejectUnauthorized |-> "undefined"]

TlsOptions(requestCert, rejectUnauthorized) ==
  [set |-> TRUE, requestCert |-> requestCert, rejectUnauthorized |-> rejectUnauthorized]

(* Settings after construction (sock.js:50-60); 'tls' is not set.          *)
DefaultSettings ==
  [ k \in {"retry timeout", "retry max timeout", "socket timeout", "disable zlib",
           "tls"} |->
      CASE k = "retry timeout"     -> 100
        [] k = "retry max timeout" -> 5000
        [] k = "socket timeout"    -> 0
        [] k = "disable zlib"      -> FALSE
        [] k = "tls"               -> NoTls ]

(* Settings the application may have applied with set() before the first   *)
(* connect()/bind(): the default base delay with a lower cap, and a small  *)
(* base delay with an idle timeout.                                        *)
SettingsChoices ==
  { [DefaultSettings EXCEPT !["retry max timeout"] = 150],
    [DefaultSettings EXCEPT !["retry timeout"] = 2, !["retry max timeout"] = 5,
                            !["socket timeout"] = 1000] }

(* Settings of the runs that follow the backoff of a client: the defaults, *)
(* a small base delay whose growth passes through a rounded half, and a    *)
(* base delay above the cap.                                               *)
BackoffSettingsChoices ==
  { DefaultSettings,
    [DefaultSettings EXCEPT !["retry timeout"] = 2, !["retry max timeout"] = 5],
    [DefaultSettings EXCEPT !["retry timeout"] = 8, !["retry max timeout"] = 5] }

VARIABLES
  kind,       \* class of the socket object: "sock", "pub" or "sub"
  settings,   \* this.settings
  type,       \* this.type: "unset", "client" or "server"
  server,     \* this.server: "null", "binding", "listening", "closing", "closed"
  closing,    \* this.closing
  connected,  \* this.connected
  retry,      \* this.retry, 0 while undefined
  stream,     \* the raw stream of each slot
  socks,      \* this.socks
  handler,    \* `subs` captured by the message handler of each stream
  pipe,       \* the inbound pipeline of each stream, with the bytes in flight
  subscriptions,      \* SubSocket: this.subscriptions
  subscriptionsSize,  \* SubSocket: this._subscriptionsSize
  cache,      \* SubSocket: this._cache
  emitted,    \* notifications emitted by the last callback or call, in order
  lastErr,    \* <<slot, err.code>> handled by the last callback, <<>> if none
  disconnected, \* <<slot, hadError>> of the 'disconnect' notification of the
              \*   last callback, <<>> if none
  thrown,     \* message of the Error thrown by the last call, "" if none
  parsed,     \* the message the last callback parsed and the slot it came on
  payload,    \* arguments of the 'message' notification of the last callback
  sent,       \* what the last send() call did
  returned,   \* the last call on the registry of a subscriber: the method,
              \*   its argument, whether the pattern was registered, and what
              \*   subscribe() returned
  prevDelay,  \* history: delay of the latest reconnection scheduled since the
              \*   last connect event, 0 if there is none
  grew,       \* history: a backoff timer has fired since construction
  userDialAfterClose, \* history: connect() was called after close()
  fnCalled,   \* history, per slot: "absent" when connect() was given no
              \*   callback, else how often the callback was invoked so far:
              \*   "never", "once" or "again" (more than once)
  attempts    \* per slot of a client: `raw`, the raw streams dialed for it
              \*   whose close event has not come, and `timers`, the
              \*   reconnection timers set for it that have not fired

subVars == <<subscriptions, subscriptionsSize, cache>>

histVars == <<prevDelay, grew, userDialAfterClose, fnCalled, attempts>>

vars == <<kind, settings, type, server, closing, connected, retry, stream, socks,
          handler, pipe, subVars, emitted, lastErr, disconnected, thrown, parsed, payload,
          sent, returned,
          histVars>>

Get(name) == settings[name]

Range(s) == { s[i] : i \in 1..Len(s) }

(* A raw stream.  st: "idle" (slot unused), "dialing", "open",             *)
(* "destroyed" (destroy() was called or the stream failed; its close       *)
(* event is still to come), "timer" (closed, backoff timer pending),       *)
(* "closed".  est: the connect event or the accept of this stream has      *)
(* happened, so its pipeline exists.  delay: the variable `retry` of the   *)
(* close handler, captured by the pending timer callback.  hadError: the   *)
(* stream was destroyed by an error, which its close event reports.  fn:   *)
(* the completion callback is among the connect listeners of this stream.  *)
(* unix: the address is a unix: URL, for which connect() keeps the         *)
(* callback in `host`.                                                     *)
IdleStream ==
  [st |-> "idle", est |-> FALSE, delay |-> 0, hadError |-> FALSE, fn |-> FALSE,
   unix |-> FALSE]

NoMessage == [on |-> 0, args |-> <<>>]

(* sock.js:189-210: the pipeline addSocket builds for a stream: a gunzip   *)
(* stage at the start of a member and a parser with an empty buffer.       *)
(* wire: the bytes the peer wrote that were not read yet.  written and     *)
(* delivered: history, the messages the peer wrote on this stream and the  *)
(* messages handed to the message handler.                                 *)
NewPipeline ==
  [wire |-> <<>>, gunzip |-> [phase |-> "header", left |-> 0], parser |-> <<>>,
   written |-> <<>>, delivered |-> <<>>]

NoSend == [called |-> FALSE, args |-> <<>>, written |-> [c \in Streams |-> <<>>],
           packs |-> 0, returned |-> ""]

(* No call on the registry: the argument and the origin are the empty     *)
(* string.                                                                 *)
NoReturn ==
  [called |-> "",
   arg |-> [re |-> FALSE, chars |-> <<>>, toks |-> <<>>],
   found |-> FALSE,
   regex |-> <<>>,
   from |-> [re |-> FALSE, chars |-> <<>>, toks |-> <<>>]]

(* What a callback or call that is no send() and delivers no message      *)
(* leaves behind: its notifications, the error it handled, the Error it    *)
(* threw.                                                                  *)
Effects(ev, err, thr) ==
  /\ emitted' = ev
  /\ lastErr' = err
  /\ disconnected' = <<>>
  /\ thrown' = thr
  /\ parsed' = NoMessage
  /\ payload' = NoMessage
  /\ sent' = NoSend
  /\ returned' = NoReturn

removeSocketNot(s, c) == s

(* sock.js:165-170: indexOf / splice *)
IndexOf(s, c) ==
  IF \E i \in 1..Len(s) : s[i] = c
    THEN CHOOSE i \in 1..Len(s) : s[i] = c /\ \A j \in 1..(i - 1) : s[j] # c
    ELSE 0

removeSocket(s, c) ==
  LET i == IndexOf(s, c)
  IN  IF i = 0 THEN s ELSE SubSeq(s, 1, i - 1) \o SubSeq(s, i + 1, Len(s))

ClassifyAlwaysFatal(code) == "error"

(* sock.js:176-178 and 232-234: the notification that follows 'socket      *)
(* error'.                                                                 *)
Classify(code) == IF code \in ignore THEN "ignored error" ELSE "error"

(* sock.js:333: self.retry || self.get('retry timeout') *)
RetryDelay == IF retry # 0 THEN retry ELSE Get("retry timeout")

GrowFloor(d) ==
  LET max == Get("retry max timeout")
  IN  IF 3 * d > 2 * max THEN max ELSE (3 * d) \div 2

(* sock.js:342: Math.round(Math.min(max, retry * 1.5)); Math.round rounds  *)
(* a half up.                                                              *)
Grow(d) ==
  LET max == Get("retry max timeout")
  IN  IF 3 * d > 2 * max THEN max ELSE (3 * d + 1) \div 2

ResetRetryForgotten == retry

(* sock.js:350: self.retry = self.get('retry timeout') *)
ResetRetry == Get("retry timeout")

ConnectNeverRefused == FALSE

(* sock.js:275: connect() throws on a socket that was bound *)
ConnectRefused == type = "server"

(* sock.js:415: bind() throws on a socket that was connected *)
BindRefused == type = "client"

TerminalAlways == TRUE

(* sock.js:332: the close handler of a dialed stream stops after 'close'   *)
(* when close() was called, and schedules a reconnection otherwise.        *)
Terminal == closing

setTimeoutTwice(n) == n + 2

(* sock.js:334-343: the close handler of a dialed stream sets one timer *)
setTimeout(n) == n + 1

(* sock.js:311-314: a new raw stream that is dialing *)
Dial(c) ==
  [stream EXCEPT ![c] = [st |-> "dialing", est |-> FALSE, delay |-> 0,
                         hadError |-> FALSE, fn |-> FALSE, unix |-> FALSE]]

(* sock.js:276-295 and 311-314: connect(port, host, fn) moves a function   *)
(* `host` to `fn`; for a unix: URL it then moves `fn` to `host`, and       *)
(* sock.connect(port, host) takes a function `host` as connect listener.   *)
(* With any other address `fn` is called by the connect handler (352).     *)
DialWith(c, fn, unix) ==
  [stream EXCEPT ![c] = [st |-> "dialing", est |-> FALSE, delay |-> 0,
                         hadError |-> FALSE, fn |-> fn, unix |-> unix]]

(* sock.js:341: self.connect(port, host) of the timer callback: `fn` is    *)
(* not passed on; `host` is, and for a unix: URL it holds the callback.    *)
Redial(c) == DialWith(c, stream[c].unix /\ stream[c].fn, stream[c].unix)

hasSubscriptionsAlways == TRUE

(* part_000:453-455 *)
hasSubscriptions == subscriptionsSize > 0

(* sock.js:251-257 and part_000:477-479: the message handler built for a   *)
(* stream; the subscriber's handler captures `subs`.                       *)
onmessage == IF kind = "sub" THEN hasSubscriptions ELSE FALSE

addSocketTwice(c) ==
  /\ socks' = Append(Append(socks, c), c)
  /\ handler' = [handler EXCEPT ![c] = onmessage]
  /\ pipe' = [pipe EXCEPT ![c] = NewPipeline]

(* sock.js:188-211: addSocket pushes the stream on this.socks and attaches *)
(* the message handler to its parser.                                      *)
addSocket(c) ==
  /\ socks' = Append(socks, c)
  /\ handler' = [handler EXCEPT ![c] = onmessage]
  /\ pipe' = [pipe EXCEPT ![c] = NewPipeline]

(* The state after construction (sock.js:50-60, part_000:433-438) of a     *)
(* socket of class k configured with s.                                    *)
Constructed(k, s) ==
  /\ kind = k
  /\ settings = s
  /\ type = "unset"
  /\ server = "null"
  /\ closing = FALSE
  /\ connected = FALSE
  /\ retry = 0
  /\ stream = [c \in Streams |-> IdleStream]
  /\ socks = <<>>
  /\ handler = [c \in Streams |-> FALSE]
  /\ pipe = [c \in Streams |-> NewPipeline]
  /\ subscriptions = {}
  /\ subscriptionsSize = 0
  /\ cache = {}
  /\ emitted = <<>>
  /\ lastErr = <<>>
  /\ disconnected = <<>>
  /\ thrown = ""
  /\ parsed = NoMessage
  /\ payload = NoMessage
  /\ sent = NoSend
  /\ returned = NoReturn
  /\ prevDelay = 0
  /\ grew = FALSE
  /\ userDialAfterClose = FALSE
  /\ fnCalled = [c \in Streams |-> "absent"]
  /\ attempts = [c \in Streams |-> [raw |-> 0, timers |-> 0]]

Init == \E s \in SettingsChoices : Constructed("sock", s)

(* sock.js:273-356: connect() called by the application for slot c, with  *)
(* a completion callback when fn, with a unix: URL when unix.              *)
ConnectWith(c, fn, unix) ==
  /\ stream[c].st = "idle"
  /\ IF ConnectRefused
       THEN /\ Effects(<<>>, <<>>, "cannot connect() after bind()")
            /\ UNCHANGED <<kind, settings, pipe, type, server, closing, connected, retry,
                           stream, socks, handler, subVars, histVars>>
       ELSE /\ Effects(<<>>, <<>>, "")
            /\ stream' = DialWith(c, fn, unix)
            /\ type' = "client"
            /\ userDialAfterClose' = (userDialAfterClose \/ closing)
            /\ fnCalled' = [fnCalled EXCEPT ![c] = IF fn THEN "never" ELSE "absent"]
            /\ attempts' = [attempts EXCEPT ![c].raw = @ + 1]
            /\ UNCHANGED <<kind, settings, pipe, server, closing, connected, retry, socks,
                           handler, subVars, prevDelay, grew>>

(* connect(port, host): a TCP address and no callback *)
Connect(c) == ConnectWith(c, FALSE, FALSE)

(* sock.js:442-446: bind() writes the defaults of requestCert and          *)
(* rejectUnauthorized into the options object: true unless false.          *)
TlsDefaults(o) ==
  IF o.set
    THEN [o EXCEPT !.requestCert = IF @ = "false" THEN "false" ELSE "true",
                   !.rejectUnauthorized = IF @ = "false" THEN "false" ELSE "true"]
    ELSE o

RejectedNever(authorized) == FALSE

(* sock.js:384: tlsOpts && !sock.authorized && tlsOpts.requestCert *)
Rejected(authorized) ==
  Get("tls").set /\ ~authorized /\ Get("tls").requestCert \notin {"undefined", "false"}

(* sock.js:413-461: bind() called by the application *)
Bind ==
  /\ server = "null"
  /\ IF BindRefused
       THEN /\ Effects(<<>>, <<>>, "cannot bind() after connect()")
            /\ UNCHANGED <<kind, settings, pipe, type, server, closing, connected, retry,
                           stream, socks, handler, subVars, histVars>>
       ELSE /\ Effects(<<>>, <<>>, "")
            /\ type' = "server"
            /\ server' = "binding"
            /\ settings' = [settings EXCEPT !["tls"] = TlsDefaults(@)]
            /\ UNCHANGED <<kind, pipe, closing, connected, retry, stream, socks,
                           handler, subVars, histVars>>

(* sock.js:452: the listener is listening *)
Listening ==
  /\ server = "binding"
  /\ server' = "listening"
  /\ Effects(<<"bind">>, <<>>, "")
  /\ UNCHANGED <<kind, settings, pipe, type, closing, connected, retry, stream, socks,
                 handler, subVars, histVars>>

(* sock.js:346-353: the connect event of a dialing stream *)
ConnectEvent(c) ==
  /\ stream[c].st = "dialing"
  /\ connected' = TRUE
  /\ addSocket(c)
  /\ stream' = [stream EXCEPT ![c].st = "open", ![c].est = TRUE]
  /\ retry' = ResetRetry
  /\ prevDelay' = 0
  /\ Effects(<<"connect">>, <<>>, "")
  /\ fnCalled' = [fnCalled EXCEPT ![c] =
                    IF ~stream[c].fn THEN @
                    ELSE IF @ = "never" THEN "once" ELSE "again"]
  /\ UNCHANGED <<kind, settings, type, server, closing, subVars, grew,
                 userDialAfterClose, attempts>>

(* sock.js:365-394: the listener hands over an accepted stream whose       *)
(* sock.authorized is `authorized`.  A TLS listener that requests a        *)
(* certificate and rejects unauthorized peers hands over authorized        *)
(* streams only.                                                           *)
AcceptWith(c, authorized) ==
  /\ server = "listening"
  /\ stream[c].st \in {"idle", "closed"}
  /\ authorized => Get("tls").set /\ Get("tls").requestCert = "true"
  /\ ~authorized =>
       ~(Get("tls").set /\ Get("tls").requestCert = "true"
           /\ Get("tls").rejectUnauthorized = "true")
  /\ addSocket(c)
  /\ stream' = [stream EXCEPT ![c] = [st |-> "open", est |-> TRUE, delay |-> 0,
                                      hadError |-> FALSE, fn |-> FALSE,
                                      unix |-> FALSE]]
  /\ Effects(<<IF Rejected(authorized) THEN "reject" ELSE "connect">>, <<>>, "")
  /\ UNCHANGED <<kind, settings, type, server, closing, connected, retry, subVars,
                 histVars>>

(* A stream accepted by a listener without TLS: sock.authorized is not set *)
Accept(c) == AcceptWith(c, FALSE)

(* sock.js:226-236: the error event of a raw stream.  Node emits it while  *)
(* it destroys the stream, so the close event follows.                     *)
StreamError(c, code) ==
  /\ stream[c].st \in {"dialing", "open"}
  /\ stream' = [stream EXCEPT ![c].st = "destroyed", ![c].hadError = TRUE]
  /\ socks' = removeSocket(socks, c)
  /\ Effects(<<"socket error", Classify(code)>>, <<c, code>>, "")
  /\ UNCHANGED <<kind, settings, pipe, type, server, closing, connected, retry, handler,
                 subVars, histVars>>

(* sock.js:172-179 with 190, 195, 199: an error of the probe, the gunzip   *)
(* or the parser stage of an established stream; handleError destroys the  *)
(* stream.                                                                 *)
StageError(c, code) ==
  /\ stream[c].est
  /\ stream[c].st \in {"open", "destroyed"}
  /\ stream' = [stream EXCEPT ![c].st = "destroyed"]
  /\ Effects(<<"socket error", Classify(code)>>, <<c, code>>, "")
  /\ UNCHANGED <<kind, settings, pipe, type, server, closing, connected, retry, socks,
                 handler, subVars, histVars>>

(* The peer ends an established stream: node destroys it without error.    *)
PeerEnd(c) ==
  /\ stream[c].st = "open"
  /\ stream' = [stream EXCEPT ![c].st = "destroyed"]
  /\ Effects(<<>>, <<>>, "")
  /\ UNCHANGED <<kind, settings, pipe, type, server, closing, connected, retry, socks,
                 handler, subVars, histVars>>

(* sock.js:321-323 and 379-381: the idle timeout destroys the stream *)
IdleTimeout(c) ==
  /\ Get("socket timeout") # 0
  /\ stream[c].st \in {"dialing", "open"}
  /\ stream' = [stream EXCEPT ![c].st = "destroyed"]
  /\ Effects(<<>>, <<>>, "")
  /\ UNCHANGED <<kind, settings, pipe, type, server, closing, connected, retry, socks,
                 handler, subVars, histVars>>

(* sock.js:328-344 (dialed stream) and 389-393 (accepted stream): the      *)
(* close event of a destroyed stream.                                      *)
StreamClose(c) ==
  /\ stream[c].st = "destroyed"
  /\ socks' = removeSocket(socks, c)
  /\ IF type = "server"
       THEN /\ emitted' = <<"disconnect">>
            /\ disconnected' = <<c, stream[c].hadError>>
            /\ lastErr' = <<>>
            /\ thrown' = ""
            /\ parsed' = NoMessage
            /\ payload' = NoMessage
            /\ sent' = NoSend
            /\ returned' = NoReturn
            /\ stream' = [stream EXCEPT ![c].st = "closed"]
            /\ UNCHANGED <<connected, prevDelay, attempts>>
       ELSE /\ connected' = FALSE
            /\ IF Terminal
                 THEN /\ Effects(<<"socket close", "close">>, <<>>, "")
                      /\ stream' = [stream EXCEPT ![c].st = "closed"]
                      /\ attempts' = [attempts EXCEPT ![c].raw = @ - 1]
                      /\ UNCHANGED prevDelay
                 ELSE /\ Effects(<<"socket close">>, <<>>, "")
                      /\ stream' = [stream EXCEPT ![c].st = "timer",
                                                  ![c].delay = RetryDelay]
                      /\ attempts' = [attempts EXCEPT ![c].raw = @ - 1,
                                                      ![c].timers = setTimeout(@)]
                      /\ prevDelay' = RetryDelay
  /\ UNCHANGED <<kind, settings, pipe, type, server, closing, retry, handler, subVars,
                 grew, userDialAfterClose, fnCalled>>

(* sock.js:334-343: the backoff timer fires *)
TimerFire(c) ==
  /\ stream[c].st = "timer"
  /\ stream' = Redial(c)
  /\ type' = "client"
  /\ retry' = Grow(stream[c].delay)
  /\ grew' = TRUE
  /\ attempts' = [attempts EXCEPT ![c].timers = @ - 1, ![c].raw = @ + 1]
  /\ Effects(<<"reconnect attempt">>, <<>>, "")
  /\ UNCHANGED <<kind, settings, pipe, server, closing, connected, socks, handler,
                 subVars, prevDelay, userDialAfterClose, fnCalled>>

closeSocketsNone == stream

(* sock.js:106-111: destroy() on every member of this.socks; it has no     *)
(* effect on a stream that is destroyed already.                           *)
closeSockets ==
  [c \in Streams |->
     IF c \in Range(socks) /\ stream[c].st = "open"
       THEN [stream[c] EXCEPT !.st = "destroyed"]
       ELSE stream[c]]

(* sock.js:123-142: close() called by the application, once *)
Close ==
  /\ ~closing
  /\ type # "unset"
  /\ closing' = TRUE
  /\ stream' = closeSockets
  /\ server' = IF server # "null" THEN "closing" ELSE server
  /\ Effects(<<>>, <<>>, "")
  /\ UNCHANGED <<kind, settings, pipe, type, connected, retry, socks, handler, subVars,
                 histVars>>

(* sock.js:139: the listener reports closed once no accepted stream is     *)
(* left.                                                                   *)
ServerClosed ==
  /\ server = "closing"
  /\ \A c \in Streams : stream[c].st \in {"idle", "closed"}
  /\ server' = "closed"
  /\ Effects(<<"close">>, <<>>, "")
  /\ UNCHANGED <<kind, settings, pipe, type, closing, connected, retry, stream, socks,
                 handler, subVars, histVars>>

Next ==
  \/ \E c \in Streams : Connect(c)
  \/ Bind
  \/ Listening
  \/ \E c \in Streams : ConnectEvent(c)
  \/ \E c \in Streams : Accept(c)
  \/ \E c \in Streams, code \in StreamErrCodes : StreamError(c, code)
  \/ \E c \in Streams, code \in StageErrCodes : StageError(c, code)
  \/ \E c \in Streams : PeerEnd(c)
  \/ \E c \in Streams : IdleTimeout(c)
  \/ \E c \in Streams : StreamClose(c)
  \/ \E c \in Streams : TimerFire(c)
  \/ Close
  \/ ServerClosed

Spec == Init /\ [][Next]_vars

(* A client and its reconnections under the backoff settings.              *)
InitBackoff == \E s \in BackoffSettingsChoices : Constructed("sock", s)

NextBackoff ==
  \/ \E c \in Streams : Connect(c)
  \/ \E c \in Streams : ConnectEvent(c)
  \/ \E c \in Streams : StreamError(c, "ECONNREFUSED")
  \/ \E c \in Streams : StreamClose(c)
  \/ \E c \in Streams : TimerFire(c)
  \/ Close

SpecBackoff == InitBackoff /\ [][NextBackoff]_vars

(* A client under the scheduling of the event loop: the close event of a   *)
(* destroyed stream is delivered and a pending timer expires.              *)
InitLive == Constructed("sock", [DefaultSettings EXCEPT !["retry max timeout"] = 100])

NextLive ==
  \/ \E c \in Streams : Connect(c)
  \/ \E c \in Streams : ConnectEvent(c)
  \/ \E c \in Streams, code \in RoleErrCodes : StreamError(c, code)
  \/ \E c \in Streams, code \in RoleErrCodes : StageError(c, code)
  \/ \E c \in Streams : StreamClose(c)
  \/ \E c \in Streams : TimerFire(c)
  \/ Close

SpecLive ==
  /\ InitLive
  /\ [][NextLive]_vars
  /\ \A c \in Streams : WF_vars(StreamClose(c)) /\ WF_vars(TimerFire(c))

(* A client whose connect() calls may carry a completion callback and may  *)
(* name a unix: URL.                                                       *)
NextCallback ==
  \/ \E c \in Streams, fn \in BOOLEAN, unix \in BOOLEAN : ConnectWith(c, fn, unix)
  \/ \E c \in Streams : ConnectEvent(c)
  \/ \E c \in Streams : StreamError(c, "ECONNREFUSED")
  \/ \E c \in Streams : PeerEnd(c)
  \/ \E c \in Streams : StreamClose(c)
  \/ \E c \in Streams : TimerFire(c)
  \/ Close

SpecCallback == InitLive /\ [][NextCallback]_vars

(* A server whose application may have set 'tls', with requestCert and     *)
(* rejectUnauthorized left out or false.                                   *)
TlsSettingsChoices ==
  { [DefaultSettings EXCEPT !["tls"] = o] :
      o \in {NoTls} \cup { TlsOptions(rc, ru) : rc, ru \in {"undefined", "false"} } }

InitTls == \E s \in TlsSettingsChoices : Constructed("sock", s)

NextTls ==
  \/ Bind
  \/ Listening
  \/ \E c \in Streams, authorized \in BOOLEAN : AcceptWith(c, authorized)
  \/ \E c \in Streams : PeerEnd(c)
  \/ \E c \in Streams : StreamClose(c)
  \/ Close
  \/ ServerClosed

SpecTls == InitTls /\ [][NextTls]_vars

(* A server under the scheduling of the event loop: the close event of a   *)
(* destroyed stream is delivered, and so is the close event of a listener  *)
(* that was closed and has no stream left.                                 *)
NextServerLive ==
  \/ Bind
  \/ Listening
  \/ \E c \in Streams : Accept(c)
  \/ \E c \in Streams, code \in RoleErrCodes : StreamError(c, code)
  \/ \E c \in Streams, code \in RoleErrCodes : StageError(c, code)
  \/ \E c \in Streams : PeerEnd(c)
  \/ \E c \in Streams : StreamClose(c)
  \/ Close
  \/ ServerClosed

SpecServerLive ==
  /\ InitLive
  /\ [][NextServerLive]_vars
  /\ \A c \in Streams : WF_vars(StreamClose(c))
  /\ WF_vars(ServerClosed)

(***************************************************************************)
(* Publisher (lib/sockets/pub.js)                                          *)
(***************************************************************************)

(* An argument of send(): a string part or a reference to a raw stream.    *)
Str(s) == [tag |-> "string", str |-> s, sock |-> 0]

SockRef(c) == [tag |-> "net.Socket", str |-> "", sock |-> c]

(* Message parts the application sends.                                    *)
SendParts == { <<>>, <<Str("t"), Str("d")>> }

(* The raw streams the application holds a reference to: those it was      *)
(* handed with a 'connect' notification.                                   *)
Exposed == { c \in Streams : stream[c].est }

(* Settings of the publisher and subscriber runs: a constant backoff, with *)
(* and without compression.                                                *)
RoleSettingsChoices ==
  { [DefaultSettings EXCEPT !["retry max timeout"] = 100],
    [DefaultSettings EXCEPT !["retry max timeout"] = 100, !["disable zlib"] = TRUE] }

(* sock.js:94-98: the frame of `args`, gzipped unless zlib is disabled *)
pack(args) == [parts |-> args, gzip |-> ~Get("disable zlib")]

WritableAlways(c) == TRUE

(* part_001:48: sock.writable; a stream is writable until it is destroyed *)
Writable(c) == stream[c].st = "open"

(* part_001:40: the final argument when it is a net.Socket, 0 otherwise *)
TargetOf(args) ==
  IF Len(args) > 0 /\ args[Len(args)].tag = "net.Socket"
    THEN args[Len(args)].sock
    ELSE 0

(* part_001:37-52: send(...parts) when target = 0, send(...parts, sock)    *)
(* with the raw stream of slot `target` otherwise.                         *)
Send(parts, target) ==
  /\ kind = "pub"
  /\ LET args == IF target = 0 THEN parts ELSE Append(parts, SockRef(target))
         socket == TargetOf(args)
         len == IF socket # 0 THEN 1 ELSE Len(socks)
         buf == pack(args)
         sockAt(i) == IF socket # 0 THEN socket ELSE socks[i]
         writes(c) == Cardinality({ i \in 1..len : sockAt(i) = c /\ Writable(c) })
     IN  sent' = [called |-> TRUE,
                  args |-> args,
                  written |-> [c \in Streams |-> [i \in 1..writes(c) |-> buf]],
                  packs |-> 1,
                  returned |-> "this"]
  /\ emitted' = <<>>
  /\ lastErr' = <<>>
  /\ disconnected' = <<>>
  /\ thrown' = ""
  /\ parsed' = NoMessage
  /\ payload' = NoMessage
  /\ returned' = NoReturn
  /\ UNCHANGED <<kind, settings, pipe, type, server, closing, connected, retry, stream,
                 socks, handler, subVars, histVars>>

InitPub == \E s \in RoleSettingsChoices : Constructed("pub", s)

NextPub ==
  \/ \E c \in Streams : Connect(c)
  \/ Bind
  \/ Listening
  \/ \E c \in Streams : ConnectEvent(c)
  \/ \E c \in Streams : Accept(c)
  \/ \E c \in Streams, code \in RoleErrCodes : StreamError(c, code)
  \/ \E c \in Streams : PeerEnd(c)
  \/ \E c \in Streams : StreamClose(c)
  \/ \E c \in Streams : TimerFire(c)
  \/ Close
  \/ ServerClosed
  \/ \E parts \in SendParts, target \in {0} \cup Exposed : Send(parts, target)

SpecPub == InitPub /\ [][NextPub]_vars

(***************************************************************************)
(* Subscriber (lib/sockets/sub.js, the second half of part_000)            *)
(***************************************************************************)

(* A compiled pattern is a sequence of tokens: the anchors ^ and $, the    *)
(* group (.+), and literal characters, written with a backslash when       *)
(* escape() escaped them.                                                  *)
Bol == [k |-> "^", c |-> "", esc |-> FALSE]

Eol == [k |-> "$", c |-> "", esc |-> FALSE]

AnyPlus == [k |-> "(.+)", c |-> "", esc |-> FALSE]

Lit(c, esc) == [k |-> "lit", c |-> c, esc |-> esc]

(* An argument of subscribe()/unsubscribe(): a string, given by its        *)
(* characters, or a RegExp object, given by its tokens.                    *)
Glob(chars) == [re |-> FALSE, chars |-> chars, toks |-> <<>>]

RegExpOf(toks) == [re |-> TRUE, chars |-> <<>>, toks |-> toks]

(* The patterns the application subscribes: "o.*", "o.c", "*", and the     *)
(* RegExp /^o\.(.+)$/ that "o.*" compiles to.                              *)
PatternChoices ==
  { Glob(<<"o", ".", "*">>), Glob(<<"o", ".", "c">>), Glob(<<"*">>),
    RegExpOf(<<Bol, Lit("o", FALSE), Lit(".", TRUE), AnyPlus, Eol>>) }

(* The patterns of the runs with streams and messages: "o.*" and "o.c".    *)
TopicPatternChoices == { Glob(<<"o", ".", "*">>), Glob(<<"o", ".", "c">>) }

(* part_000:509: the `ids` of a subscribe() called without them *)
DefaultIds == <<"_">>

(* The `ids` arguments of subscribe(): omitted, one element, tag and scope. *)
IdsChoices == { DefaultIds, <<"tag">>, <<"tag", "scope">> }

(* Topics of inbound messages: "o.c", "i.c", "o.".                         *)
TopicChoices == { <<"o", ".", "c">>, <<"i", ".", "c">>, <<"o", ".">> }

(* Inbound messages: a topic alone or a topic and a data part.             *)
MessageChoices ==
  { <<t>> : t \in TopicChoices } \cup { <<t, <<"d">>>> : t \in {<<"o", ".", "c">>} }

(* part_000:575: the characters escape() puts a backslash before *)
Special == {".", "*", "+", "?", "^", "$", "(", ")", "[", "]", "{", "}", "|", "\\"}

(* part_000:573-578: a RegExp is used as it is; in a string every special  *)
(* character is escaped, every escaped * becomes (.+), and the result is   *)
(* anchored.                                                               *)
toRegExp(p) ==
  IF p.re THEN p.toks
  ELSE <<Bol>>
       \o [i \in 1..Len(p.chars) |->
             IF p.chars[i] = "*" THEN AnyPlus
             ELSE Lit(p.chars[i], p.chars[i] \in Special)]
       \o <<Eol>>

(* The source text of a token.                                             *)
SourceOf(tok) ==
  CASE tok.k = "^"    -> <<"^">>
    [] tok.k = "$"    -> <<"$">>
    [] tok.k = "(.+)" -> <<"(", ".", "+", ")">>
    [] tok.k = "lit"  -> IF tok.esc THEN <<"\\", tok.c>> ELSE <<tok.c>>

RECURSIVE Source(_)
Source(re) == IF re = <<>> THEN <<>> ELSE SourceOf(Head(re)) \o Source(Tail(re))

(* part_000:514 and 536: re.toString(), the key of the registry *)
toString(re) == <<"/">> \o Source(re) \o <<"/">>

(* RegExp.prototype.test for the tokens above: does `re` match from token  *)
(* i on at position j of s.                                                *)
RECURSIVE MatchFrom(_, _, _, _)
MatchFrom(re, i, s, j) ==
  IF i > Len(re) THEN TRUE
  ELSE CASE re[i].k = "^"    -> j = 1 /\ MatchFrom(re, i + 1, s, j)
         [] re[i].k = "$"    -> j = Len(s) + 1 /\ MatchFrom(re, i + 1, s, j)
         [] re[i].k = "(.+)" -> \E n \in 1..(Len(s) + 1 - j) :
                                  MatchFrom(re, i + 1, s, j + n)
         [] re[i].k = "lit"  -> /\ j <= Len(s)
                                /\ s[j] = re[i].c
                                /\ MatchFrom(re, i + 1, s, j + 1)

Test(re, s) == \E j \in 1..(Len(s) + 1) : MatchFrom(re, 1, s, j)

(* The matcher cache (Cache of xcraft-core-transport): a set of entries    *)
(* (id, key, regex); matches(topic) without ids holds iff some entry's     *)
(* regex matches the topic.                                                *)
CacheSet(id, key, re) == cache \cup { [id |-> id, key |-> key, regex |-> re] }

CacheDel(id, key) == { e \in cache : ~(e.id = id /\ e.key = key) }

CacheMatches(topic) == \E e \in cache : Test(e.regex, topic)

(* part_000:465-467 *)
matches(topic) == CacheMatches(topic)

RegisteredNever(key) == FALSE

(* this.subscriptions[key] is set *)
Registered(key) == \E e \in subscriptions : e.key = key

Entry(key) == CHOOSE e \in subscriptions : e.key = key

OwningIdFirst(ids) == ids[1]

(* part_000:511: the identifier a new pattern is registered under *)
OwningId(ids) == IF Len(ids) > 1 THEN ids[2] ELSE ids[1]

unsubKeepingCount(id, reS) ==
  [cache |-> CacheDel(id, reS),
   subscriptions |-> { e \in subscriptions : e.key # reS },
   size |-> subscriptionsSize]

(* part_000:519 and 495-499: the unsub closure of an entry, which captured *)
(* `id`: what _unsub(id, reS) leaves of cache, registry and count.         *)
unsub(id, reS) ==
  [cache |-> CacheDel(id, reS),
   subscriptions |-> { e \in subscriptions : e.key # reS },
   size |-> subscriptionsSize - 1]

(* What a call on the registry leaves behind.                              *)
RegistryCall(ret) ==
  /\ returned' = ret
  /\ emitted' = <<>>
  /\ lastErr' = <<>>
  /\ disconnected' = <<>>
  /\ thrown' = ""
  /\ parsed' = NoMessage
  /\ payload' = NoMessage
  /\ sent' = NoSend

(* part_000:509-524: subscribe(re, ids).  An entry of the registry holds  *)
(* the compiled pattern, the identifier its unsub closure captured, and    *)
(* (`from`) the argument it was compiled from, which tells the RegExp      *)
(* object of one call from that of another.                                *)
Subscribe(p, ids) ==
  /\ kind = "sub"
  /\ LET id == OwningId(ids)
         re == toRegExp(p)
         reS == toString(re)
     IN  /\ IF ~Registered(reS)
              THEN /\ cache' = CacheSet(id, reS, re)
                   /\ subscriptions' =
                        subscriptions \cup
                          { [key |-> reS, regex |-> re, id |-> id, from |-> p] }
                   /\ subscriptionsSize' = subscriptionsSize + 1
              ELSE UNCHANGED subVars
         /\ LET entry == CHOOSE e \in subscriptions' : e.key = reS
            IN  RegistryCall([called |-> "subscribe", arg |-> p,
                              found |-> Registered(reS),
                              regex |-> entry.regex, from |-> entry.from])
  /\ UNCHANGED <<kind, settings, pipe, type, server, closing, connected, retry, stream,
                 socks, handler, histVars>>

(* part_000:533-540 with the unsub closure of 519 and _unsub of 495-499 *)
Unsubscribe(p) ==
  /\ kind = "sub"
  /\ LET s == toString(toRegExp(p))
     IN  IF Registered(s)
           THEN \E u \in { unsub(Entry(s).id, s) } :
                  /\ cache' = u.cache
                  /\ subscriptions' = u.subscriptions
                  /\ subscriptionsSize' = u.size
           ELSE UNCHANGED subVars
  /\ RegistryCall([NoReturn EXCEPT !.called = "unsubscribe", !.arg = p,
                                   !.found = Registered(toString(toRegExp(p)))])
  /\ UNCHANGED <<kind, settings, pipe, type, server, closing, connected, retry, stream,
                 socks, handler, histVars>>

(* part_000:548-555: every entry is unsubscribed, then the registry, the   *)
(* count and the cache are reset.                                          *)
ClearSubscriptions ==
  /\ kind = "sub"
  /\ subscriptions' = {}
  /\ subscriptionsSize' = 0
  /\ cache' = {}
  /\ RegistryCall([NoReturn EXCEPT !.called = "clearSubscriptions",
                                   !.found = (subscriptions # {})])
  /\ UNCHANGED <<kind, settings, pipe, type, server, closing, connected, retry, stream,
                 socks, handler, histVars>>

(* sock.js:251-257 and part_000:481-492: the parser of the stream of slot  *)
(* c emits the message msg.  The handler of a subscriber filters on the    *)
(* first part when the `subs` it captured is true.                         *)
Message(c, msg) ==
  /\ stream[c].st = "open"
  /\ parsed' = [on |-> c, args |-> msg]
  /\ IF kind = "sub"
       THEN IF handler[c] /\ ~matches(msg[1])
              THEN emitted' = <<>> /\ payload' = NoMessage
              ELSE emitted' = <<"message">> /\ payload' = [on |-> 0, args |-> msg]
       ELSE emitted' = <<"message">> /\ payload' = [on |-> c, args |-> msg]
  /\ lastErr' = <<>>
  /\ disconnected' = <<>>
  /\ thrown' = ""
  /\ sent' = NoSend
  /\ returned' = NoReturn
  /\ UNCHANGED <<kind, settings, pipe, type, server, closing, connected, retry, stream,
                 socks, handler, subVars, histVars>>

SendErrorNone == ""

(* part_000:562: the message of the Error that send() throws *)
SendError == "subscribers cannot send messages"

(* part_000:561-563: send(...args) on a subscriber throws before anything  *)
(* else happens.                                                           *)
SubSend(args) ==
  /\ kind = "sub"
  /\ thrown' = SendError
  /\ sent' = [NoSend EXCEPT !.called = TRUE, !.args = args]
  /\ emitted' = <<>>
  /\ lastErr' = <<>>
  /\ disconnected' = <<>>
  /\ parsed' = NoMessage
  /\ payload' = NoMessage
  /\ returned' = NoReturn
  /\ UNCHANGED <<kind, settings, pipe, type, server, closing, connected, retry, stream,
                 socks, handler, subVars, histVars>>

InitSub == Constructed("sub", [DefaultSettings EXCEPT !["retry max timeout"] = 100])

NextSub ==
  \/ \E c \in Streams : Connect(c)
  \/ Bind
  \/ Listening
  \/ \E c \in Streams : ConnectEvent(c)
  \/ \E c \in Streams : Accept(c)
  \/ \E c \in Streams : PeerEnd(c)
  \/ \E c \in Streams : StreamClose(c)
  \/ \E c \in Streams : TimerFire(c)
  \/ \E p \in TopicPatternChoices : Subscribe(p, <<"_">>)
  \/ \E p \in TopicPatternChoices : Unsubscribe(p)
  \/ ClearSubscriptions
  \/ \E c \in Streams, msg \in MessageChoices : Message(c, msg)
  \/ SubSend(<<Str("t"), Str("d")>>)

SpecSub == InitSub /\ [][NextSub]_vars

(* The registry of a subscriber alone, with every `ids` argument.          *)
NextRegistry ==
  \/ \E p \in PatternChoices, ids \in IdsChoices : Subscribe(p, ids)
  \/ \E p \in PatternChoices : Unsubscribe(p)
  \/ ClearSubscriptions

SpecRegistry == InitSub /\ [][NextRegistry]_vars

(***************************************************************************)
(* Inbound pipeline (addSocket of lib/sockets/sock.js, lib/perf-stream.js) *)
(***************************************************************************)

(* Messages the peers may write, on all streams together.                  *)
MaxFrames == 2

(* Bytes the stream may hand over in one chunk: more than the bytes of     *)
(* MaxFrames messages.                                                     *)
MaxChunk == 5 * MaxFrames

(* A message is a sequence of parts, a part a sequence of bytes: the       *)
(* message without parts and the message of the one part <<7>>.            *)
PipeMessages == { <<>>, << <<7>> >> }

RECURSIVE Flatten(_)
Flatten(ss) == IF ss = <<>> THEN <<>> ELSE Head(ss) \o Flatten(Tail(ss))

(* Message.toBuffer of xcraft-amp-message: the count of parts, then for    *)
(* every part a presence byte, its length and its bytes.                   *)
toBuffer(parts) ==
  <<Len(parts)>> \o Flatten([i \in 1..Len(parts) |-> <<1, Len(parts[i])>> \o parts[i]])

(* zlib.gzipSync: one gzip member, made of a header that tells where the   *)
(* member ends and of the content.                                         *)
gzipSync(bytes) == <<Len(bytes)>> \o bytes

(* The bytes of a buffer that pack() returned.                             *)
WireBytes(buf) == IF buf.gzip THEN gzipSync(toBuffer(buf.parts)) ELSE toBuffer(buf.parts)

PerfTransformNone(chunk) == <<>>

(* part_002:12-15: PerfStream._transform hands the chunk on as it is *)
PerfTransform(chunk) == chunk

(* zlib.createGunzip: a streaming decoder of concatenated members.  One    *)
(* byte is fed in state g; the result is the new state and the bytes that  *)
(* come out.                                                               *)
GunzipByte(g, b) ==
  CASE g.phase = "header"  -> [g |-> [phase |-> IF b = 0 THEN "header" ELSE "content",
                                      left |-> b],
                               out |-> <<>>]
    [] g.phase = "content" -> [g |-> [phase |-> IF g.left = 1 THEN "header" ELSE "content",
                                      left |-> g.left - 1],
                               out |-> <<b>>]

RECURSIVE Gunzip(_, _)
Gunzip(g, chunk) ==
  IF chunk = <<>> THEN [g |-> g, out |-> <<>>]
  ELSE LET r == GunzipByte(g, Head(chunk))
           t == Gunzip(r.g, Tail(chunk))
       IN  [g |-> t.g, out |-> r.out \o t.out]

(* The frame parser (Stream of xcraft-amp): n parts are read from buf      *)
(* starting at pos; ok is false when the buffer ends before the frame.     *)
RECURSIVE ParseParts(_, _, _, _)
ParseParts(buf, pos, n, acc) ==
  IF n = 0 THEN [ok |-> TRUE, parts |-> acc, next |-> pos]
  ELSE IF pos + 1 > Len(buf) THEN [ok |-> FALSE, parts |-> <<>>, next |-> pos]
  ELSE IF pos + 1 + buf[pos + 1] > Len(buf) THEN [ok |-> FALSE, parts |-> <<>>, next |-> pos]
  ELSE ParseParts(buf, pos + 2 + buf[pos + 1], n - 1,
                  Append(acc, SubSeq(buf, pos + 2, pos + 1 + buf[pos + 1])))

(* Every complete frame at the head of the buffer is extracted, in order;  *)
(* the rest stays buffered.                                                *)
RECURSIVE ParseAll(_)
ParseAll(buf) ==
  IF buf = <<>> THEN [msgs |-> <<>>, rest |-> <<>>]
  ELSE LET r == ParseParts(buf, 2, buf[1], <<>>)
       IN  IF ~r.ok THEN [msgs |-> <<>>, rest |-> buf]
           ELSE LET t == ParseAll(SubSeq(buf, r.next, Len(buf)))
                IN  [msgs |-> <<r.parts>> \o t.msgs, rest |-> t.rest]

(* The messages written so far, on all streams.                            *)
FramesWritten ==
  Cardinality({ w \in Streams \X (1..MaxFrames) : w[2] <= Len(pipe[w[1]].written) })

(* The peer, a socket with the same settings, writes pack(msg) on the      *)
(* stream of slot c.                                                       *)
PeerWrite(c, msg) ==
  /\ stream[c].st = "open"
  /\ FramesWritten < MaxFrames
  /\ pipe' = [pipe EXCEPT ![c].wire = @ \o WireBytes(pack(msg)),
                          ![c].written = Append(@, msg)]
  /\ Effects(<<>>, <<>>, "")
  /\ UNCHANGED <<kind, settings, type, server, closing, connected, retry, stream,
                 socks, handler, subVars, histVars>>

(* sock.js:205-210 and 251-257: the stream of slot c reads the next k      *)
(* bytes as one chunk; the chunk passes the probe, the gunzip stage unless *)
(* zlib is disabled, and the parser, whose every frame goes to the message *)
(* handler, which emits 'message'.                                         *)
Read(c, k) ==
  /\ kind = "sock"
  /\ stream[c].st = "open"
  /\ k \in 1..Len(pipe[c].wire)
  /\ \E z \in { IF Get("disable zlib")
                   THEN [g |-> pipe[c].gunzip,
                         out |-> PerfTransform(SubSeq(pipe[c].wire, 1, k))]
                   ELSE Gunzip(pipe[c].gunzip,
                               PerfTransform(SubSeq(pipe[c].wire, 1, k))) } :
       \E r \in { ParseAll(pipe[c].parser \o z.out) } :
         /\ pipe' = [pipe EXCEPT ![c].wire = SubSeq(@, k + 1, Len(@)),
                                 ![c].gunzip = z.g,
                                 ![c].parser = r.rest,
                                 ![c].delivered = @ \o r.msgs]
         /\ emitted' = [i \in 1..Len(r.msgs) |-> "message"]
  /\ parsed' = NoMessage
  /\ payload' = NoMessage
  /\ lastErr' = <<>>
  /\ disconnected' = <<>>
  /\ thrown' = ""
  /\ sent' = NoSend
  /\ returned' = NoReturn
  /\ UNCHANGED <<kind, settings, type, server, closing, connected, retry, stream,
                 socks, handler, subVars, histVars>>

(* The reading runs: streams are dialed and stay open while the peer       *)
(* writes and the bytes arrive, with and without zlib.                     *)
InitPipeline == \E s \in RoleSettingsChoices : Constructed("sock", s)

NextPipeline ==
  \/ \E c \in Streams : Connect(c)
  \/ \E c \in Streams : ConnectEvent(c)
  \/ \E c \in Streams, msg \in PipeMessages : PeerWrite(c, msg)
  \/ \E c \in Streams, k \in 1..MaxChunk : Read(c, k)

SpecPipeline == InitPipeline /\ [][NextPipeline]_vars

(***************************************************************************)
(* Properties                                                              *)
(***************************************************************************)

(* The close event of the stream of slot c schedules a reconnection in     *)
(* this step.                                                              *)
Scheduled(c) == stream[c].st = "destroyed" /\ stream'[c].st = "timer"

(* The application has called connect() for at most one address.           *)
SingleAddress == Cardinality({ c \in Streams : stream[c].st # "idle" }) <= 1

(* C1 - Close finality: once close() has been called on a client-role      *)
(* socket, no callback emits 'reconnect attempt' (and so none re-dials).   *)
(* The timer callback of sock.js:334-343 does not test self.closing, so a  *)
(* timer that was pending at close() still fires and dials.                *)
CloseFinality ==
  (closing /\ type = "client") => "reconnect attempt" \notin Range(emitted)

(* C2 - After close() on a client-role socket no stream is added to the    *)
(* active set any more (the application calling connect() again set        *)
(* aside).  closeSockets destroys the members of this.socks only, so a     *)
(* stream that was dialing at close() is added when it connects.           *)
NoStreamAddedAfterClose ==
  [][ (closing /\ type = "client" /\ ~userDialAfterClose)
        => Range(socks') \subseteq Range(socks) ]_vars

BackoffReset ==
  [][ \A c \in Streams :
        (Scheduled(c) /\ stream[c].est)
          => stream'[c].delay = Get("retry timeout") ]_vars

(* C4 as amended - the same, for a socket on which connect() was called    *)
(* for one address only; and while its stream is established the backoff   *)
(* value is the base delay.                                                *)
BackoffResetSingle ==
  [][ \A c \in Streams :
        /\ (Scheduled(c) /\ stream[c].est /\ SingleAddress)
             => stream'[c].delay = Get("retry timeout")
        /\ (stream'[c].est /\ stream'[c].st \in {"open", "destroyed"}
              /\ type' = "client" /\ SingleAddress)
             => retry' = Get("retry timeout") ]_vars

(* C4 witness: a backoff timer has fired (the backoff grew), then the      *)
(* stream connected and closed, and the reconnection now pending was       *)
(* scheduled after the base delay.                                         *)
BackoffWasReset ==
  /\ grew
  /\ SingleAddress
  /\ Get("retry timeout") < Get("retry max timeout")
  /\ \E c \in Streams :
       stream[c].st = "timer" /\ stream[c].est
         /\ stream[c].delay = Get("retry timeout")

(* C9 - Role exclusivity: a role that is set never changes; the first      *)
(* connect() makes the socket a client and the first bind() a server;      *)
(* connect() on a server and bind() on a client throw, create no stream    *)
(* and no listener and leave role, connection set, listener and backoff    *)
(* unchanged.                                                              *)
RoleExclusive ==
  [][ /\ type # "unset" => type' = type
      /\ \A c \in Streams :
           Connect(c) =>
             IF type = "server"
               THEN /\ thrown' = "cannot connect() after bind()"
                    /\ UNCHANGED <<type, stream, socks, server, retry, closing,
                                   connected>>
               ELSE thrown' = "" /\ type' = "client" /\ server' = "null"
      /\ Bind =>
           IF type = "client"
             THEN /\ thrown' = "cannot bind() after connect()"
                  /\ UNCHANGED <<type, stream, socks, server, retry, closing,
                                 connected>>
             ELSE thrown' = "" /\ type' = "server" ]_vars

(* C9 witness: connect() has just thrown on a socket bound as server.      *)
ConnectAfterBindThrew ==
  /\ thrown = "cannot connect() after bind()"
  /\ type = "server"
  /\ server # "null"

(* C10 - Error classification: the callback that handles an error of a     *)
(* raw stream or of one of its pipeline stages leaves the stream           *)
(* destroyed and emits 'socket error' first, followed by exactly one       *)
(* notification: 'ignored error' when the code is in the ignorable set,    *)
(* 'error' otherwise.                                                      *)
ErrorClassification ==
  lastErr # <<>> =>
    /\ stream[lastErr[1]].st = "destroyed"
    /\ Len(emitted) = 2
    /\ emitted[1] = "socket error"
    /\ lastErr[2] \in ignore => emitted[2] = "ignored error"
    /\ lastErr[2] \notin ignore => emitted[2] = "error"

(* C10 witness: an ignorable error of an established stream was handled.   *)
IgnoredErrorHandled ==
  /\ lastErr # <<>>
  /\ lastErr[2] = "ECONNRESET"
  /\ stream[lastErr[1]].est
  /\ emitted = <<"socket error", "ignored error">>

(* C7 - Broadcast skip: a send() whose final argument is no stream writes  *)
(* one and the same packed buffer exactly once to every stream of          *)
(* this.socks that is writable and nothing to any other stream, packs      *)
(* once, and returns the socket.                                           *)
BroadcastSkip ==
  (sent.called /\ TargetOf(sent.args) = 0) =>
    /\ \A c \in Streams :
         sent.written[c] =
           IF c \in Range(socks) /\ stream[c].st = "open"
             THEN << [parts |-> sent.args, gzip |-> ~settings["disable zlib"]] >>
             ELSE <<>>
    /\ sent.packs = 1
    /\ sent.returned = "this"

(* C7 witness: a broadcast with a writable and a destroyed stream in       *)
(* this.socks reached the writable one only.                               *)
BroadcastSkipped ==
  /\ sent.called
  /\ TargetOf(sent.args) = 0
  /\ \E c, d \in Range(socks) :
       /\ stream[c].st = "open" /\ Len(sent.written[c]) = 1
       /\ stream[d].st = "destroyed" /\ sent.written[d] = <<>>

(* C8 - Targeted unicast: a send() whose final argument is a stream writes *)
(* the message made of the arguments that precede the stream to that       *)
(* stream and nothing to the others.  pack() is given all the arguments,   *)
(* so the frame that is written carries the stream as its last part.       *)
TargetedUnicast ==
  (sent.called /\ TargetOf(sent.args) # 0 /\ stream[TargetOf(sent.args)].st = "open") =>
    \A c \in Streams :
      sent.written[c] =
        IF c = TargetOf(sent.args)
          THEN << [parts |-> SubSeq(sent.args, 1, Len(sent.args) - 1),
                   gzip |-> ~settings["disable zlib"]] >>
          ELSE <<>>

(* C5 - Accept-all default: a message parsed on a stream of a subscriber   *)
(* whose subscription count is zero is delivered with all its parts.  The  *)
(* handler tests the `subs` it captured when the stream was added          *)
(* (part_000:478), not the current count.                                  *)
AcceptAllDefault ==
  (kind = "sub" /\ parsed.on # 0 /\ subscriptionsSize = 0) =>
    (emitted = <<"message">> /\ payload.args = parsed.args)

(* C6 - Topic filtering: a message parsed on a stream of a subscriber that *)
(* has at least one subscription is delivered if and only if its first     *)
(* part matches a registered pattern.                                      *)
TopicFiltering ==
  (kind = "sub" /\ parsed.on # 0 /\ subscriptionsSize > 0) =>
    (emitted = <<"message">>
       <=> \E e \in subscriptions : Test(e.regex, parsed.args[1]))

(* C11 - Reconnection is unconditional on error classification: on a       *)
(* client on which close() is not called, every error handled for a        *)
(* stream, ignorable or fatal, before or after establishment, is followed  *)
(* by the close of that stream (a reconnection is scheduled) and by a new  *)
(* dial of the same address.                                               *)
ErrorLeadsToReconnect ==
  \A c \in Streams :
    /\ (lastErr # <<>> /\ lastErr[1] = c /\ type = "client" /\ ~closing)
         ~> (closing \/ stream[c].st = "timer")
    /\ (lastErr # <<>> /\ lastErr[1] = c /\ type = "client" /\ ~closing)
         ~> (closing \/ stream[c].st = "dialing")

(* C11 witness: a fatal error of an established stream was handled on a    *)
(* client that is not closing.                                             *)
FatalErrorOnClient ==
  /\ lastErr # <<>>
  /\ lastErr[2] \notin ignore
  /\ stream[lastErr[1]].est
  /\ emitted = <<"socket error", "error">>
  /\ type = "client"
  /\ ~closing

(* C12 - Pattern collapsing: subscribe() with a pattern whose canonical    *)
(* string is registered leaves registry, count and cache as they are and   *)
(* returns the matcher registered first; with a new canonical string it    *)
(* adds one entry and one to the count and returns the new matcher; and    *)
(* the count is the number of distinct canonical strings registered.       *)
PatternCollapsing ==
  [][ /\ \A p \in PatternChoices, ids \in IdsChoices :
           Subscribe(p, ids) =>
             LET key == toString(toRegExp(p))
             IN  IF \E e \in subscriptions : e.key = key
                   THEN /\ UNCHANGED <<subscriptions, subscriptionsSize, cache>>
                        /\ \E e \in subscriptions :
                             /\ e.key = key
                             /\ returned'.regex = e.regex
                             /\ returned'.from = e.from
                   ELSE /\ subscriptionsSize' = subscriptionsSize + 1
                        /\ { e.key : e \in subscriptions' }
                             = { e.key : e \in subscriptions } \cup {key}
                        /\ returned'.regex = toRegExp(p)
                        /\ returned'.from = p
      /\ subscriptionsSize' = Cardinality({ e.key : e \in subscriptions' })
      /\ Cardinality(subscriptions') = subscriptionsSize' ]_vars

(* C12 witness: "o.*" is registered, /^o\.(.+)$/ was subscribed after it   *)
(* and the call returned the matcher compiled from "o.*"; the count is 1.  *)
CollapsedOnExisting ==
  /\ returned.called = "subscribe"
  /\ returned.arg = RegExpOf(<<Bol, Lit("o", FALSE), Lit(".", TRUE), AnyPlus, Eol>>)
  /\ returned.from = Glob(<<"o", ".", "*">>)
  /\ subscriptionsSize = 1

(* C13 - Idempotent unsubscribe and clear: unsubscribe() of a pattern that *)
(* is not registered leaves registry, count and cache unchanged; after any *)
(* unsubscribe() the pattern is not registered (a second one is that       *)
(* no-op); after clearSubscriptions() hasSubscriptions() is false and      *)
(* registry and cache are empty.                                           *)
IdempotentUnsubscribe ==
  [][ /\ \A p \in PatternChoices :
           Unsubscribe(p) =>
             LET key == toString(toRegExp(p))
             IN  /\ (\A e \in subscriptions : e.key # key)
                      => UNCHANGED <<subscriptions, subscriptionsSize, cache>>
                 /\ \A e \in subscriptions' : e.key # key
                 /\ \A e \in cache' : e.key # key
      /\ ClearSubscriptions =>
           /\ ~hasSubscriptions'
           /\ subscriptions' = {}
           /\ cache' = {} ]_vars

(* C13 witness: unsubscribe() of a pattern that is not registered was      *)
(* called while another pattern is registered.                             *)
UnsubscribedUnregistered ==
  /\ returned.called = "unsubscribe"
  /\ ~returned.found
  /\ subscriptionsSize > 0
  /\ cache # {}

(* C14 - send() on a subscriber throws an Error in every state, writes to  *)
(* no stream, packs nothing, and leaves the socket, its streams, its       *)
(* connection set and its registry as they were.                           *)
SubscriberCannotSend ==
  [][ (kind = "sub" /\ sent'.called) =>
        /\ thrown' # ""
        /\ \A c \in Streams : sent'.written[c] = <<>>
        /\ sent'.packs = 0
        /\ emitted' = <<>>
        /\ UNCHANGED <<settings, type, server, closing, connected, retry, stream,
                       socks, handler, subscriptions, subscriptionsSize, cache>> ]_vars

(* C14 witness: send() has just thrown on a subscriber that holds an open  *)
(* stream in its connection set.                                           *)
SendThrewWhileConnected ==
  /\ kind = "sub"
  /\ sent.called
  /\ thrown = "subscribers cannot send messages"
  /\ \E c \in Range(socks) : stream[c].st = "open"

(* C15 - Server role never reconnects: the close event of an accepted      *)
(* stream emits 'disconnect' once, carrying the hadError of that close,    *)
(* and leaves the stream out of the connection set; 'disconnect' is        *)
(* emitted by no other step; a server-role socket has no stream that is    *)
(* dialing and no pending reconnection, and emits no 'reconnect attempt'.  *)
ServerNeverReconnects ==
  [][ /\ \A c \in Streams :
           (type = "server" /\ stream[c].st = "destroyed" /\ stream'[c].st = "closed")
             => /\ emitted' = <<"disconnect">>
                /\ disconnected' = <<c, stream[c].hadError>>
                /\ c \notin Range(socks')
      /\ "disconnect" \in Range(emitted')
           => \E c \in Streams :
                type = "server" /\ stream[c].st = "destroyed" /\ stream'[c].st = "closed"
      /\ type' = "server"
           => /\ \A c \in Streams : stream'[c].st \notin {"dialing", "timer"}
              /\ "reconnect attempt" \notin Range(emitted') ]_vars

(* C15 witness: an accepted stream that failed has closed; 'disconnect'    *)
(* carried hadError = true and the stream left the connection set.         *)
DisconnectedAfterError ==
  /\ type = "server"
  /\ emitted = <<"disconnect">>
  /\ disconnected # <<>>
  /\ disconnected[2]
  /\ stream[disconnected[1]].st = "closed"

(* C16 - Server close: close() on a server-role socket sets closing,       *)
(* leaves every stream of the connection set destroyed and the listener    *)
(* closing; 'close' is emitted by the step in which the listener reports   *)
(* closed and by no other; after close() no stream is accepted; and        *)
(* eventually the connection set is empty and the listener closed.         *)
ServerClose ==
  /\ [][ /\ (type = "server" /\ ~closing /\ closing')
              => /\ \A c \in Range(socks) : stream'[c].st = "destroyed"
                 /\ server' = "closing"
                 /\ "close" \notin Range(emitted')
         /\ (type = "server" /\ "close" \in Range(emitted'))
              => (server = "closing" /\ server' = "closed")
         /\ (type = "server" /\ closing)
              => \A c \in Streams : stream'[c].st = "open" => stream[c].st = "open"
       ]_vars
  /\ (type = "server" /\ closing) ~> (socks = <<>> /\ server = "closed")
  /\ (type = "server" /\ closing) ~> [](socks = <<>>)

(* C16 witness: the listener of a server that held a stream in its         *)
(* connection set when close() was called has reported closed.             *)
ServerCloseCompleted ==
  /\ type = "server"
  /\ closing
  /\ server = "closed"
  /\ emitted = <<"close">>
  /\ \E c \in Streams : stream[c].st = "closed" /\ ~stream[c].hadError

(* C17 as stated - the connection set holds no stream twice and holds a    *)
(* stream exactly from its connect event or accept until its close event.  *)
ConnectionSetMembership ==
  /\ \A i, j \in 1..Len(socks) : socks[i] = socks[j] => i = j
  /\ \A c \in Streams :
       c \in Range(socks) <=> (stream[c].est /\ stream[c].st \in {"open", "destroyed"})

(* C17 as amended - the connection set holds no stream twice; it holds a   *)
(* stream exactly from its connect event or accept until the error event   *)
(* of the raw stream (handleErrors removes it before the close event       *)
(* comes) or, when there is none, until its close event; so a member is    *)
(* established and not closed, and a closed stream is never a member.      *)
ConnectionSetMembershipUntilError ==
  /\ \A i, j \in 1..Len(socks) : socks[i] = socks[j] => i = j
  /\ \A c \in Streams :
       c \in Range(socks)
         <=> /\ stream[c].est
             /\ \/ stream[c].st = "open"
                \/ stream[c].st = "destroyed" /\ ~stream[c].hadError

(* C17 witness: of two established streams that are destroyed and not yet  *)
(* closed, the one that had an error has left the connection set and the   *)
(* other is still a member.                                                *)
ErroredStreamLeftEarly ==
  \E c, d \in Streams :
    /\ stream[c].est /\ stream[c].st = "destroyed" /\ stream[c].hadError
    /\ c \notin Range(socks)
    /\ stream[d].est /\ stream[d].st = "destroyed" /\ ~stream[d].hadError
    /\ d \in Range(socks)

(* C18 - Completion callback: when connect() was given a callback, the     *)
(* callback has been invoked exactly once whenever a stream to that        *)
(* address is established, at the first dial or at a later one, and it is  *)
(* never invoked a second time.  The re-dial of sock.js:341 passes no      *)
(* callback, so after a failed first dial it is never invoked; with a      *)
(* unix: URL it travels in `host` and is invoked at every establishment.   *)
CallbackExactlyOnce ==
  \A c \in Streams :
    /\ fnCalled[c] # "again"
    /\ (fnCalled[c] # "absent" /\ stream[c].est /\ stream[c].st = "open")
         => fnCalled[c] = "once"

(* C19 - Per-connection ordering: on every stream the messages handed to   *)
(* the application are, in order and without gap or repetition, the first  *)
(* of the messages the peer wrote on that stream, whatever chunks the      *)
(* bytes arrive in; and once every byte was read all of them were handed   *)
(* over.  Each stream has a pipeline of its own.                           *)
PerConnectionOrdering ==
  \A c \in Streams :
    /\ Len(pipe[c].delivered) <= Len(pipe[c].written)
    /\ pipe[c].delivered = SubSeq(pipe[c].written, 1, Len(pipe[c].delivered))
    /\ pipe[c].wire = <<>> => pipe[c].delivered = pipe[c].written

(* C19 witness: a chunk that held the end of one frame and the whole of    *)
(* the next has been read, and both messages, which differ, were           *)
(* delivered in the order written.                                         *)
TwoFramesInOneChunk ==
  \E c \in Streams :
    /\ emitted = <<"message", "message">>
    /\ Len(pipe[c].delivered) = 2
    /\ pipe[c].delivered[1] # pipe[c].delivered[2]
    /\ pipe[c].delivered = pipe[c].written

(* C20 - Reject versus connect: the step that accepts a stream emits one   *)
(* notification, 'reject' when 'tls' is set with requestCert not false and *)
(* the stream is not authorized, 'connect' otherwise, and the stream is in *)
(* the connection set when it is emitted; no other step of a server-role   *)
(* socket emits either.                                                    *)
RejectOrConnect ==
  [][ /\ \A c \in Streams, authorized \in BOOLEAN :
           AcceptWith(c, authorized) =>
             /\ emitted' =
                  << IF settings["tls"].set /\ settings["tls"].requestCert = "true"
                          /\ ~authorized
                       THEN "reject" ELSE "connect" >>
             /\ c \in Range(socks')
      /\ (type = "server" /\ (\E n \in {"reject", "connect"} : n \in Range(emitted')))
           => \E c \in Streams : stream[c].st # "open" /\ stream'[c].st = "open" ]_vars

(* C20 witness: a TLS listener that requests certificates and does not     *)
(* reject unauthorized peers has accepted an unauthorized stream: it is in *)
(* the connection set and 'reject' was emitted.                            *)
UnauthorizedRejected ==
  /\ emitted = <<"reject">>
  /\ settings["tls"].set
  /\ settings["tls"].rejectUnauthorized = "false"
  /\ \E c \in Range(socks) : stream[c].st = "open"

(* C21 - Registry consistency: in every state of a subscriber the count is *)
(* a natural number equal to the number of registry entries, no two        *)
(* entries have the same canonical string, hasSubscriptions() holds iff    *)
(* there is an entry, and the matcher cache holds, for every registry      *)
(* entry, one entry with its canonical string, its matcher and the         *)
(* identifier it was registered with, and nothing else.                    *)
RegistryConsistency ==
  /\ subscriptionsSize \in Nat
  /\ subscriptionsSize = Cardinality(subscriptions)
  /\ \A e1 \in subscriptions, e2 \in subscriptions : e1.key = e2.key => e1 = e2
  /\ hasSubscriptions <=> Cardinality(subscriptions) > 0
  /\ cache = { [id |-> e.id, key |-> e.key, regex |-> e.regex] : e \in subscriptions }
  /\ Cardinality(cache) = Cardinality(subscriptions)

(* C21 witness: of two patterns registered under different identifiers one *)
(* was unsubscribed; the other is left, in the registry and in the cache.  *)
UnsubscribedOneOfTwo ==
  /\ returned.called = "unsubscribe"
  /\ returned.found
  /\ subscriptionsSize = 1
  /\ \E e \in cache : e.id = "scope" /\ e.key # toString(toRegExp(returned.arg))

(* C22 as stated - Owning identifier: subscribe(pattern, ids) with a new   *)
(* pattern puts it in the matcher cache, and in the unsubscribe closure of *)
(* its registry entry, under the sentinel "_" when ids is omitted or has   *)
(* one element and under the second element when it has two; and           *)
(* unsubscribe() of a registered pattern removes its cache entry.          *)
OwningIdentifier ==
  [][ /\ \A p \in PatternChoices, ids \in IdsChoices :
           (Subscribe(p, ids) /\ \A e \in subscriptions : e.key # toString(toRegExp(p)))
             => LET id == IF Len(ids) = 2 THEN ids[2] ELSE "_"
                    key == toString(toRegExp(p))
                IN  /\ cache' = cache \cup { [id |-> id, key |-> key, regex |-> toRegExp(p)] }
                    /\ \E e \in subscriptions' : e.key = key /\ e.id = id
      /\ \A p \in PatternChoices :
           (Unsubscribe(p) /\ \E e \in subscriptions : e.key = toString(toRegExp(p)))
             => /\ cache' = { e \in cache : e.key # toString(toRegExp(p)) }
                /\ cache' # cache ]_vars

(* C22 amended - the identifier is the only element of ids when it has     *)
(* one, which is the sentinel "_" when ids is omitted, and the second      *)
(* element when it has two; the rest as stated.                            *)
OwningIdentifierFirstOrSecond ==
  [][ /\ \A p \in PatternChoices, ids \in IdsChoices :
           (Subscribe(p, ids) /\ \A e \in subscriptions : e.key # toString(toRegExp(p)))
             => LET id == IF Len(ids) = 2 THEN ids[2] ELSE ids[1]
                    key == toString(toRegExp(p))
                IN  /\ cache' = cache \cup { [id |-> id, key |-> key, regex |-> toRegExp(p)] }
                    /\ \E e \in subscriptions' : e.key = key /\ e.id = id
                    /\ ids = <<"_">> => id = "_"
      /\ \A p \in PatternChoices :
           (Unsubscribe(p) /\ \E e \in subscriptions : e.key = toString(toRegExp(p)))
             => /\ cache' = { e \in cache : e.key # toString(toRegExp(p)) }
                /\ cache' # cache ]_vars

(* C22 witness: a new pattern was just subscribed with the one-element ids *)
(* <<"tag">> and is in the cache under "tag".                              *)
SubscribedUnderOnlyElement ==
  /\ returned.called = "subscribe"
  /\ ~returned.found
  /\ \E e \in cache : e.id = "tag" /\ e.regex = returned.regex

(* C23 - Single outstanding attempt: for every address of a client-role    *)
(* socket there is at most one raw stream whose close event has not come   *)
(* or one pending reconnection timer, never both and never two of a kind:  *)
(* a dialing or established stream is the only one and has no timer beside *)
(* it.  The close event of a stream sets exactly one timer when close()    *)
(* was not called and none when it was; a step that handles an error of a  *)
(* stream or of one of its stages sets none; so the number of timers never *)
(* exceeds one.                                                            *)
SingleOutstandingAttempt ==
  /\ [](\A c \in Streams :
          /\ attempts[c].raw + attempts[c].timers <= 1
          /\ stream[c].st \in {"dialing", "open"} /\ type = "client"
               => attempts[c] = [raw |-> 1, timers |-> 0]
          /\ attempts[c].timers = 1 <=> stream[c].st = "timer")
  /\ [][ /\ \A c \in Streams :
             (StreamClose(c) /\ type = "client")
               => attempts'[c].timers
                    = attempts[c].timers + (IF closing THEN 0 ELSE 1)
         /\ lastErr' # <<>>
              => \A c \in Streams : attempts'[c].timers = attempts[c].timers ]_vars

(* C23 witness: after an error and a first reconnection, the re-dialed     *)
(* stream failed with an error too and has closed: its one timer is        *)
(* pending, and no stream of that address is left.                         *)
SecondTimerAlone ==
  \E c \in Streams :
    /\ grew
    /\ stream[c].st = "timer"
    /\ stream[c].hadError
    /\ attempts[c] = [raw |-> 0, timers |-> 1]

====
